---- MODULE Spec2Model ----
(***************************************************************************)
(* Model of the parser generator of Prototype_4 (parser_generator.py,      *)
(* lexer_generator.py): the GAST analysis of ParserGenerator, the emitted  *)
(* recursive-descent recognizer GeneratedParser (executed here one Python  *)
(* evaluation step per action, with an explicit call stack) and the target *)
(* lexer StandardLexer.                                                    *)
(*                                                                         *)
(* Texts and lexemes are sequences of one-character strings; Python's None *)
(* is the string "None", which is no character.  Positions are 0-based as  *)
(* in the source, so text[pos] of the source is text[pos + 1] here.        *)
(***************************************************************************)
EXTENDS Integers, Sequences, FiniteSets, TLC

\* ------------------------------------------------------------------------
\* Bounds of the model
\* ------------------------------------------------------------------------

\* longest input text drawn over a grammar's alphabet
MaxLen == 3

\* deepest call stack of the recognizer (the interpreter's recursion limit)
MaxDepth == 48

\* most pieces put together into a grammar text for the front end
MaxPieces == 3

\* ------------------------------------------------------------------------
\* Characters (str.isalpha / isdigit / isalnum / isspace on one character)
\* ------------------------------------------------------------------------

None == "None"

Letters ==
  { "a", "b", "c", "d", "e", "f", "g", "h", "i", "j", "k", "l", "m",
    "n", "o", "p", "q", "r", "s", "t", "u", "v", "w", "x", "y", "z",
    "A", "B", "C", "D", "E", "F", "G", "H", "I", "J", "K", "L", "M",
    "N", "O", "P", "Q", "R", "S", "T", "U", "V", "W", "X", "Y", "Z" }

Digits == { "0", "1", "2", "3", "4", "5", "6", "7", "8", "9" }

IsAlphaChar(c) == c \in Letters

IsDigitChar(c) == c \in Digits

IsAlnumChar(c) == IsAlphaChar(c) \/ IsDigitChar(c)

IsSpaceChar(c) == c \in { " ", "\n", "\t", "\r" }

\* str.isalpha() / str.isdigit() of a whole string: non-empty, every character
IsAlpha(v) == Len(v) > 0 /\ \A i \in 1..Len(v) : IsAlphaChar(v[i])

IsDigit(v) == Len(v) > 0 /\ \A i \in 1..Len(v) : IsDigitChar(v[i])

\* ------------------------------------------------------------------------
\* Target lexer: StandardLexer of lexer_generator.py
\* ------------------------------------------------------------------------

\* the hard-coded symbol set of StandardLexer.__init__
LexerSymbols ==
  { "{", "}", "(", ")", "[", "]", ".", ",", ";", "+", "-",
    "*", "/", "&", "|", "<", ">", "=", "~" }

Token(type, value, line, column) ==
  [type |-> type, value |-> value, line |-> line, column |-> column]

\* self.current_token = None
NoToken == Token("None", <<>>, 0, 0)

CharAt(text, pos) == IF pos < Len(text) THEN text[pos + 1] ELSE None

\* a lexer that would count columns from 0
NewLexerFromColumnZero(text) ==
  [pos |-> 0, line |-> 1, column |-> 0,
   current_char |-> IF Len(text) > 0 THEN text[1] ELSE None]

\* StandardLexer.__init__
NewLexer(text) ==
  [pos |-> 0, line |-> 1, column |-> 1,
   current_char |-> IF Len(text) > 0 THEN text[1] ELSE None]

advance(text, lx) ==
  [pos |-> lx.pos + 1,
   line |-> IF lx.current_char = "\n" THEN lx.line + 1 ELSE lx.line,
   column |-> IF lx.current_char = "\n" THEN 1 ELSE lx.column + 1,
   current_char |-> CharAt(text, lx.pos + 1)]

peek(text, lx) == CharAt(text, lx.pos + 1)

RECURSIVE skip_whitespace(_, _)
skip_whitespace(text, lx) ==
  IF lx.current_char # None /\ IsSpaceChar(lx.current_char)
  THEN skip_whitespace(text, advance(text, lx))
  ELSE lx

\* while self.current_char and self.current_char != '\n': self.advance()
RECURSIVE SkipLine(_, _)
SkipLine(text, lx) ==
  IF lx.current_char # None /\ lx.current_char # "\n"
  THEN SkipLine(text, advance(text, lx))
  ELSE lx

\* the while loop of the block-comment branch of skip_comment
RECURSIVE SkipBlock(_, _)
SkipBlock(text, lx) ==
  IF lx.current_char = None THEN lx
  ELSE IF lx.current_char = "*" /\ peek(text, lx) = "/"
       THEN advance(text, advance(text, lx))
       ELSE SkipBlock(text, advance(text, lx))

skip_comment(text, lx) ==
  IF peek(text, lx) = "/" THEN SkipLine(text, lx)
  ELSE IF peek(text, lx) = "*"
       THEN SkipBlock(text, advance(text, advance(text, lx)))
       ELSE lx

\* the scanning loops of identifier / number / string: result and lexer after
RECURSIVE IdentRun(_, _, _)
IdentRun(text, lx, result) ==
  IF lx.current_char # None
     /\ (IsAlnumChar(lx.current_char) \/ lx.current_char = "_")
  THEN IdentRun(text, advance(text, lx), Append(result, lx.current_char))
  ELSE [lx |-> lx, result |-> result]

RECURSIVE DigitRun(_, _, _)
DigitRun(text, lx, result) ==
  IF lx.current_char # None /\ IsDigitChar(lx.current_char)
  THEN DigitRun(text, advance(text, lx), Append(result, lx.current_char))
  ELSE [lx |-> lx, result |-> result]

RECURSIVE StringRun(_, _, _)
StringRun(text, lx, result) ==
  IF lx.current_char # None /\ lx.current_char # "\""
  THEN StringRun(text, advance(text, lx), Append(result, lx.current_char))
  ELSE [lx |-> lx, result |-> result]

\* The lexer methods return [lx, tok, err]: the lexer after the call, the
\* token returned and, when the call raised, the kind of the exception.
\* (the message of an exception carries a line and a column: they are the
\* line and column of the token slot of a raising call).
LexOk(lx, tok) == [lx |-> lx, tok |-> tok, err |-> "none"]

LexRaise(lx, err, column) ==
  [lx |-> lx, tok |-> Token("None", <<>>, lx.line, column), err |-> err]

identifier(text, keywords, lx) ==
  LET r == IdentRun(text, lx, <<>>)
  IN  LexOk(r.lx,
            Token(IF r.result \in keywords THEN "KEYWORD" ELSE "IDENTIFIER",
                  r.result, r.lx.line, lx.column))

number(text, lx) ==
  LET r == DigitRun(text, lx, <<>>)
  IN  LexOk(r.lx, Token("INTEGER", r.result, r.lx.line, lx.column))

string(text, lx) ==
  LET r == StringRun(text, advance(text, lx), <<>>)
  IN  IF r.lx.current_char = "\""
      THEN LexOk(advance(text, r.lx),
                 Token("STRING", r.result, r.lx.line, lx.column))
      ELSE LexRaise(r.lx, "Unterminated string", lx.column)

\* a lexer that would take a doubled symbol character as one SYMBOL token
RECURSIVE get_next_token_longest_match(_, _, _)
get_next_token_longest_match(text, keywords, lx) ==
  LET c == lx.current_char
  IN  IF c = None THEN LexOk(lx, Token("EOF", <<>>, lx.line, lx.column))
      ELSE IF IsSpaceChar(c)
           THEN get_next_token_longest_match(text, keywords,
                                             skip_whitespace(text, lx))
      ELSE IF c = "/" /\ peek(text, lx) \in { "/", "*" }
           THEN get_next_token_longest_match(text, keywords,
                                             skip_comment(text, lx))
      ELSE IF IsAlphaChar(c) THEN identifier(text, keywords, lx)
      ELSE IF IsDigitChar(c) THEN number(text, lx)
      ELSE IF c = "\"" THEN string(text, lx)
      ELSE IF c \in LexerSymbols \cup { "/" }
           THEN IF peek(text, lx) = c
                THEN LexOk(advance(text, advance(text, lx)),
                           Token("SYMBOL", <<c, c>>, lx.line, lx.column))
                ELSE LexOk(advance(text, lx),
                           Token("SYMBOL", <<c>>, lx.line, lx.column))
      ELSE LexRaise(lx, "Invalid character", lx.column)

RECURSIVE get_next_token(_, _, _)
get_next_token(text, keywords, lx) ==
  LET c == lx.current_char
  IN  IF c = None THEN LexOk(lx, Token("EOF", <<>>, lx.line, lx.column))
      ELSE IF IsSpaceChar(c)
           THEN get_next_token(text, keywords, skip_whitespace(text, lx))
      ELSE IF c = "/"
           THEN IF peek(text, lx) \in { "/", "*" }
                THEN get_next_token(text, keywords, skip_comment(text, lx))
                ELSE LexOk(advance(text, lx),
                           Token("SYMBOL", <<c>>, lx.line, lx.column))
      ELSE IF IsAlphaChar(c) THEN identifier(text, keywords, lx)
      ELSE IF IsDigitChar(c) THEN number(text, lx)
      ELSE IF c = "\"" THEN string(text, lx)
      ELSE IF c \in LexerSymbols
           THEN LexOk(advance(text, lx),
                      Token("SYMBOL", <<c>>, lx.line, lx.column))
      ELSE LexRaise(lx, "Invalid character", lx.column)

\* ------------------------------------------------------------------------
\* GAST (grammar_parser node classes) and the analysis of ParserGenerator
\* ------------------------------------------------------------------------

Terminal(value) == [type |-> "Terminal", value |-> value]

NonTerminal(name) == [type |-> "NonTerminal", name |-> name]

Sequence(items) == [type |-> "Sequence", items |-> items]

Alternative(options) == [type |-> "Alternative", options |-> options]

Repetition(item) == [type |-> "Repetition", item |-> item]

Optional(item) == [type |-> "Optional", item |-> item]

Rule(name, definition) == [name |-> name, definition |-> definition]

\* the reserved names, as terminal values (strings of characters)
identifierValue == << "i", "d", "e", "n", "t", "i", "f", "i", "e", "r" >>

integerConstantValue ==
  << "i", "n", "t", "e", "g", "e", "r", "C", "o", "n", "s", "t", "a", "n", "t" >>

stringLiteralValue ==
  << "s", "t", "r", "i", "n", "g", "L", "i", "t", "e", "r", "a", "l" >>

\* token_config['special_tokens']: reserved name -> token type; the parser
\* method of each entry is match(<token type>) (parse_identifier,
\* parse_integerConstant, parse_stringLiteral)
SpecialTokens ==
  { [value |-> identifierValue, token_type |-> "IDENTIFIER"],
    [value |-> integerConstantValue, token_type |-> "INTEGER"],
    [value |-> stringLiteralValue, token_type |-> "STRING"] }

SpecialValues == { st.value : st \in SpecialTokens }

SpecialType(value) == (CHOOSE st \in SpecialTokens : st.value = value).token_type

\* the built-in parse_<name> methods of the recognizer, by rule-like name
BuiltinType(name) ==
  CASE name = "identifier" -> "IDENTIFIER"
    [] name = "integerConstant" -> "INTEGER"
    [] name = "stringLiteral" -> "STRING"
    [] OTHER -> "None"

RuleNames(ast) == { ast[i].name : i \in 1..Len(ast) }

\* the last rule of that name (a later method definition replaces an earlier)
LastRule(ast, name) ==
  ast[CHOOSE i \in 1..Len(ast) :
        /\ ast[i].name = name
        /\ \A j \in (i + 1)..Len(ast) : ast[j].name # name]

_is_digit_sequence_pattern(number_rule, digit_rule) ==
  LET d == number_rule.definition
  IN  /\ d.type = "Sequence"
      /\ Len(d.items) >= 1
      /\ d.items[1].type = "NonTerminal"
      /\ d.items[1].name = "digit"
      /\ Len(d.items) >= 2 =>
           /\ d.items[2].type = "Repetition"
           /\ d.items[2].item.type = "NonTerminal"
           /\ d.items[2].item.name = "digit"

IsNumberRef(node) == node.type = "NonTerminal" /\ node.name = "number"

\* _replace_number_in_node: the node as the call leaves it.  A reference to
\* number held by a parent is replaced by Terminal('integerConstant'); the
\* definition of a rule is only renamed in place, its replacement is dropped.
RECURSIVE _replace_number_in_node(_)
_replace_number_in_node(node) ==
  LET child(n) == IF IsNumberRef(n) THEN Terminal(integerConstantValue)
                  ELSE _replace_number_in_node(n)
  IN  CASE IsNumberRef(node) -> NonTerminal("integerConstant")
        [] node.type = "Sequence" ->
             Sequence([i \in 1..Len(node.items) |-> child(node.items[i])])
        [] node.type = "Alternative" ->
             Alternative([i \in 1..Len(node.options) |-> child(node.options[i])])
        [] node.type = "Repetition" -> Repetition(child(node.item))
        [] node.type = "Optional" -> Optional(child(node.item))
        [] OTHER -> node

_replace_number_with_integer_constant(ast) ==
  [i \in 1..Len(ast) |->
     Rule(ast[i].name, _replace_number_in_node(ast[i].definition))]

_preprocess_grammar(ast) ==
  IF /\ "number" \in RuleNames(ast)
     /\ "digit" \in RuleNames(ast)
     /\ _is_digit_sequence_pattern(LastRule(ast, "number"), LastRule(ast, "digit"))
  THEN _replace_number_with_integer_constant(ast)
  ELSE ast

RECURSIVE _get_all_nodes(_)
_get_all_nodes(node) ==
  {node} \cup
  CASE node.type = "Sequence" ->
         UNION { _get_all_nodes(node.items[i]) : i \in 1..Len(node.items) }
    [] node.type = "Alternative" ->
         UNION { _get_all_nodes(node.options[i]) : i \in 1..Len(node.options) }
    [] node.type \in { "Repetition", "Optional" } -> _get_all_nodes(node.item)
    [] OTHER -> {}

AllNodes(ast) == UNION { _get_all_nodes(ast[i].definition) : i \in 1..Len(ast) }

\* _collect_terminals: the keywords and the symbols of the grammar
TerminalValues(ast) ==
  { n.value : n \in { m \in AllNodes(ast) : m.type = "Terminal" } }

CollectKeywords(ast) ==
  { v \in TerminalValues(ast) : v \notin SpecialValues /\ IsAlpha(v) }

CollectSymbols(ast) ==
  { v \in TerminalValues(ast) :
      v \notin SpecialValues /\ ~IsAlpha(v) /\ ~IsDigit(v) }

\* generate_parser_code: the rules that get a parse_<name> method
SkipRules(ast) ==
  IF \/ "integerConstant" \in RuleNames(ast)
     \/ \E n \in AllNodes(ast) :
          n.type = "NonTerminal" /\ n.name = "integerConstant"
  THEN { "digit" } ELSE {}

EmittedNames(ast) == RuleNames(ast) \ SkipRules(ast)

StartName(ast) == ast[1].name

\* ------------------------------------------------------------------------
\* Grammars and input texts the recognizer is generated for and run on
\* ------------------------------------------------------------------------

\* s = "a","b" | "a","c";
GastBacktrack ==
  << Rule("s", Alternative(<<
       Sequence(<< Terminal(<<"a">>), Terminal(<<"b">>) >>),
       Sequence(<< Terminal(<<"a">>), Terminal(<<"c">>) >>) >>)) >>

\* expr=term,{("+"|"-"),term}; term=factor,{("*"|"/"),factor};
\* factor=integerConstant|"(",expr,")";
GastArith ==
  << Rule("expr", Sequence(<<
       NonTerminal("term"),
       Repetition(Sequence(<<
         Alternative(<< Terminal(<<"+">>), Terminal(<<"-">>) >>),
         NonTerminal("term") >>)) >>)),
     Rule("term", Sequence(<<
       NonTerminal("factor"),
       Repetition(Sequence(<<
         Alternative(<< Terminal(<<"*">>), Terminal(<<"/">>) >>),
         NonTerminal("factor") >>)) >>)),
     Rule("factor", Alternative(<<
       NonTerminal("integerConstant"),
       Sequence(<< Terminal(<<"(">>), NonTerminal("expr"), Terminal(<<")">>) >>) >>)) >>

\* s = b | c; b = a,"x"; c = a,"y"; a = "p";
GastShared ==
  << Rule("s", Alternative(<< NonTerminal("b"), NonTerminal("c") >>)),
     Rule("b", Sequence(<< NonTerminal("a"), Terminal(<<"x">>) >>)),
     Rule("c", Sequence(<< NonTerminal("a"), Terminal(<<"y">>) >>)),
     Rule("a", Terminal(<<"p">>)) >>

\* s = {["a"]},"b";
GastZeroWidth ==
  << Rule("s", Sequence(<<
       Repetition(Optional(Terminal(<<"a">>))), Terminal(<<"b">>) >>)) >>

\* s = ["a"],t,"" | identifier;   (t is not defined)
GastDangling ==
  << Rule("s", Alternative(<<
       Sequence(<< Optional(Terminal(<<"a">>)), NonTerminal("t"), Terminal(<<>>) >>),
       NonTerminal("identifier") >>)) >>

\* value = stringLiteral | integerConstant | object | array;
\* object = "{", [pair, {",", pair}], "}"; pair = stringLiteral, ":", value;
\* array = "[", [value, {",", value}], "]";
GastJson ==
  << Rule("value", Alternative(<<
       NonTerminal("stringLiteral"), NonTerminal("integerConstant"),
       NonTerminal("object"), NonTerminal("array") >>)),
     Rule("object", Sequence(<<
       Terminal(<<"{">>),
       Optional(Sequence(<<
         NonTerminal("pair"),
         Repetition(Sequence(<< Terminal(<<",">>), NonTerminal("pair") >>)) >>)),
       Terminal(<<"}">>) >>)),
     Rule("pair", Sequence(<<
       NonTerminal("stringLiteral"), Terminal(<<":">>), NonTerminal("value") >>)),
     Rule("array", Sequence(<<
       Terminal(<<"[">>),
       Optional(Sequence(<<
         NonTerminal("value"),
         Repetition(Sequence(<< Terminal(<<",">>), NonTerminal("value") >>)) >>)),
       Terminal(<<"]">>) >>)) >>

\* number = digit,{digit}; digit = "0"|"1"|"2"|"3"|"4"|"5"|"6"|"7"|"8"|"9";
GastNumber ==
  << Rule("number", Sequence(<<
       NonTerminal("digit"), Repetition(NonTerminal("digit")) >>)),
     Rule("digit", Alternative(<<
       Terminal(<<"0">>), Terminal(<<"1">>), Terminal(<<"2">>), Terminal(<<"3">>),
       Terminal(<<"4">>), Terminal(<<"5">>), Terminal(<<"6">>), Terminal(<<"7">>),
       Terminal(<<"8">>), Terminal(<<"9">>) >>)) >>

\* e = e,"+",t | t; t = "n";
GastLeftRec ==
  << Rule("e", Alternative(<<
       Sequence(<< NonTerminal("e"), Terminal(<<"+">>), NonTerminal("t") >>),
       NonTerminal("t") >>)),
     Rule("t", Terminal(<<"n">>)) >>

\* s = {"a","b"};
GastRep ==
  << Rule("s", Repetition(Sequence(<< Terminal(<<"a">>), Terminal(<<"b">>) >>))) >>

\* s = ["a","b"],"a";
GastOpt ==
  << Rule("s", Sequence(<<
       Optional(Sequence(<< Terminal(<<"a">>), Terminal(<<"b">>) >>)),
       Terminal(<<"a">>) >>)) >>

\* s = t | "a"; t = "==","a";
GastEqEq ==
  << Rule("s", Alternative(<< NonTerminal("t"), Terminal(<<"a">>) >>)),
     Rule("t", Sequence(<< Terminal(<<"=", "=">>), Terminal(<<"a">>) >>)) >>

\* s = number,{"+",number}; number = digit,{digit}; digit = "1"|"2";
GastNumRef ==
  << Rule("s", Sequence(<<
       NonTerminal("number"),
       Repetition(Sequence(<< Terminal(<<"+">>), NonTerminal("number") >>)) >>)),
     Rule("number", Sequence(<<
       NonTerminal("digit"), Repetition(NonTerminal("digit")) >>)),
     Rule("digit", Alternative(<< Terminal(<<"1">>), Terminal(<<"2">>) >>)) >>

\* s = number; number = digit; digit = "1"|"12";
GastNumBare ==
  << Rule("s", NonTerminal("number")),
     Rule("number", NonTerminal("digit")),
     Rule("digit", Alternative(<< Terminal(<<"1">>), Terminal(<<"1", "2">>) >>)) >>

GrammarNames ==
  { "backtrack", "arith", "shared", "zerowidth", "dangling", "json", "number",
    "leftrec", "rep", "opt", "eqeq", "numref", "numbare" }

Gast(g) ==
  CASE g = "backtrack" -> GastBacktrack
    [] g = "arith" -> GastArith
    [] g = "shared" -> GastShared
    [] g = "zerowidth" -> GastZeroWidth
    [] g = "dangling" -> GastDangling
    [] g = "json" -> GastJson
    [] g = "number" -> GastNumber
    [] g = "leftrec" -> GastLeftRec
    [] g = "rep" -> GastRep
    [] g = "opt" -> GastOpt
    [] g = "eqeq" -> GastEqEq
    [] g = "numref" -> GastNumRef
    [] g = "numbare" -> GastNumBare

\* the characters the texts of a grammar are drawn from
Alphabet(g) ==
  CASE g = "backtrack" -> { "a", "b", "c", " ", "$", "_" }
    [] g = "arith" -> { "3", "+", "*", "/", "(", ")", "\n" }
    [] g = "shared" -> { "p", "x", "y", " " }
    [] g = "zerowidth" -> { "a", "b", " " }
    [] g = "dangling" -> { "a", "b", " ", "\"" }
    [] g = "json" -> { "{", "}", ":", "\"", "1", "\n" }
    [] g = "number" -> { "1", "2", "3", " " }
    [] g = "leftrec" -> { "n", "+" }
    [] g = "rep" -> { "a", "b", " " }
    [] g = "opt" -> { "a", "b", " " }
    [] g = "eqeq" -> { "=", "a", " " }
    [] g = "numref" -> { "1", "2", "+" }
    [] g = "numbare" -> { "1", "2", " " }

RECURSIVE TextsOfLen(_, _)
TextsOfLen(alphabet, n) ==
  IF n = 0 THEN { <<>> }
  ELSE { Append(t, c) : t \in TextsOfLen(alphabet, n - 1), c \in alphabet }

\* the two inputs of the arithmetic scenario
TextAccept == << "4", "*", "(", "5", "+", "6", ")" >>

TextReject == << "3", "+", "*", "6" >>

\* the two inputs of the JSON scenario: {"a":[1,2,3]} and {"a":}
JsonAccept ==
  << "{", "\"", "a", "\"", ":", "[", "1", ",", "2", ",", "3", "]", "}" >>

JsonReject == << "{", "\"", "a", "\"", ":", "}" >>

Scenarios(g) ==
  CASE g = "arith" -> { TextAccept, TextReject }
    [] g = "json" -> { JsonAccept, JsonReject }
    [] OTHER -> {}

Inputs(g) ==
  Scenarios(g) \cup UNION { TextsOfLen(Alphabet(g), n) : n \in 0..MaxLen }

\* ------------------------------------------------------------------------
\* The grammar front end of Prototype_3: ParserGenerator.__init__ detects the
\* format of the grammar text and, for BNF, hands the text to BNFParser
\* (bnf_parser.py).  Names and literals read from the text are sequences of
\* characters.
\* ------------------------------------------------------------------------

\* no node (None)
NoNode == [type |-> "None"]

\* sub in txt
Has(txt, sub) ==
  \E i \in 0..(Len(txt) - Len(sub)) : SubSeq(txt, i + 1, i + Len(sub)) = sub

_is_bnf_grammar(txt) ==
  LET has_angle_brackets == Has(txt, <<"<">>) /\ Has(txt, <<">">>)
      has_bnf_assignment == Has(txt, <<":", ":", "=">>)
      has_ebnf_markers ==
        Has(txt, <<";">>) /\ Has(txt, <<"=">>) /\ ~Has(txt, <<":", ":", "=">>)
      has_ebnf_repetition ==
        Has(txt, <<"{">>) /\ Has(txt, <<"}">>) /\ ~Has(txt, <<"}", "*">>)
  IN  \/ has_angle_brackets /\ has_bnf_assignment
      \/ has_angle_brackets /\ ~has_ebnf_markers /\ ~has_ebnf_repetition

\* GrammarLexer of bnf_parser.py; its advance and skip_whitespace compute
\* what those of StandardLexer compute
RECURSIVE NameRun(_, _, _)
NameRun(txt, lx, result) ==
  IF lx.current_char # None /\ lx.current_char \notin { " ", ">" }
  THEN NameRun(txt, advance(txt, lx), Append(result, lx.current_char))
  ELSE [lx |-> lx, result |-> result]

GrammarLexer_identifier(txt, lx) ==
  LET r == NameRun(txt, IF lx.current_char = "<" THEN advance(txt, lx) ELSE lx,
                   << >>)
      after == IF r.lx.current_char = ">" THEN advance(txt, r.lx) ELSE r.lx
  IN  LexOk(after, Token("IDENTIFIER", r.result, after.line, lx.column))

GrammarLexer_terminal(txt, lx) ==
  LET r == StringRun(txt, advance(txt, lx), << >>)
  IN  IF r.lx.current_char = "\""
      THEN LexOk(advance(txt, r.lx),
                 Token("TERMINAL", r.result, r.lx.line, lx.column))
      ELSE LexRaise(r.lx, "Unterminated string", lx.column)

char_to_token(c) ==
  CASE c = "=" -> "EQUALS"
    [] c = ";" -> "SEMICOLON"
    [] c = "|" -> "PIPE"
    [] c = "(" -> "LPAREN"
    [] c = ")" -> "RPAREN"
    [] OTHER -> "None"

RECURSIVE GrammarLexer_get_next_token(_, _)
GrammarLexer_get_next_token(txt, lx) ==
  LET c == lx.current_char
  IN  IF c = None THEN LexOk(lx, Token("EOF", << >>, lx.line, lx.column))
      ELSE IF IsSpaceChar(c)
           THEN GrammarLexer_get_next_token(txt, skip_whitespace(txt, lx))
      ELSE IF c = "<" THEN GrammarLexer_identifier(txt, lx)
      ELSE IF c = "\"" THEN GrammarLexer_terminal(txt, lx)
      ELSE IF char_to_token(c) # "None"
           THEN LexOk(advance(txt, lx),
                      Token(char_to_token(c), <<c>>, lx.line, lx.column))
      ELSE LexRaise(lx, "Invalid character", lx.column)

\* a local variable of a parse method: the value is computed once, then used
Bind(value, Use(_)) == CHOOSE r \in { Use(v) : v \in { value } } : TRUE

\* BNFParser.  The state of the parser is [lx, tok, err]: the lexer, the
\* current token and the exception under way ("none" when there is none);
\* a parse method returns [st, node].
BNFParser(txt) ==
  Bind(GrammarLexer_get_next_token(txt, NewLexer(txt)),
       LAMBDA r : [lx |-> r.lx, tok |-> r.tok, err |-> r.err])

eat(txt, st, token_type) ==
  IF st.tok.type = token_type
  THEN Bind(GrammarLexer_get_next_token(txt, st.lx),
            LAMBDA r : [lx |-> r.lx,
                        tok |-> IF r.err = "none" THEN r.tok ELSE st.tok,
                        err |-> r.err])
  ELSE [st EXCEPT !.err = "Unexpected token"]

Parsed(st, node) == [st |-> st, node |-> node]

\* a parse_sequence that would wrap a lone term too
SequenceWrapped(terms) == Sequence(terms)

\* the list of parsed terms as the node returned: a lone term is not wrapped
SequenceOf(terms) == IF Len(terms) = 1 THEN terms[1] ELSE Sequence(terms)

AlternativeOf(terms) == IF Len(terms) = 1 THEN terms[1] ELSE Alternative(terms)

RECURSIVE parse_expression(_, _)
RECURSIVE MoreOptions(_, _, _)
RECURSIVE parse_sequence(_, _)
RECURSIVE MoreTerms(_, _, _)
RECURSIVE parse_term(_, _)
parse_term(txt, st) ==
  CASE st.tok.type = "TERMINAL" ->
         Parsed(eat(txt, st, "TERMINAL"), Terminal(st.tok.value))
    [] st.tok.type = "IDENTIFIER" ->
         Parsed(eat(txt, st, "IDENTIFIER"), NonTerminal(st.tok.value))
    [] st.tok.type = "LPAREN" ->
         Bind(eat(txt, st, "LPAREN"),
              LAMBDA open :
                IF open.err # "none" THEN Parsed(open, NoNode)
                ELSE Bind(parse_expression(txt, open),
                          LAMBDA expr :
                            IF expr.st.err # "none" THEN expr
                            ELSE Parsed(eat(txt, expr.st, "RPAREN"), expr.node)))
    [] OTHER -> Parsed([st EXCEPT !.err = "Unexpected token"], NoNode)

\* the while loop of parse_sequence
MoreTerms(txt, st, terms) ==
  IF st.tok.type \in { "IDENTIFIER", "TERMINAL", "LPAREN" }
  THEN Bind(parse_term(txt, st),
            LAMBDA t : IF t.st.err # "none" THEN t
                       ELSE MoreTerms(txt, t.st, Append(terms, t.node)))
  ELSE Parsed(st, SequenceOf(terms))

parse_sequence(txt, st) ==
  Bind(parse_term(txt, st),
       LAMBDA t : IF t.st.err # "none" THEN t
                  ELSE MoreTerms(txt, t.st, << t.node >>))

\* the while loop of parse_expression
MoreOptions(txt, st, terms) ==
  IF st.tok.type = "PIPE"
  THEN Bind(eat(txt, st, "PIPE"),
            LAMBDA bar :
              IF bar.err # "none" THEN Parsed(bar, NoNode)
              ELSE Bind(parse_sequence(txt, bar),
                        LAMBDA s :
                          IF s.st.err # "none" THEN s
                          ELSE MoreOptions(txt, s.st, Append(terms, s.node))))
  ELSE Parsed(st, AlternativeOf(terms))

parse_expression(txt, st) ==
  Bind(parse_sequence(txt, st),
       LAMBDA s : IF s.st.err # "none" THEN s
                  ELSE MoreOptions(txt, s.st, << s.node >>))

\* parse_rule where the current token is an IDENTIFIER
parse_rule(txt, st) ==
  Bind(eat(txt, st, "IDENTIFIER"),
       LAMBDA name :
         IF name.err # "none" THEN Parsed(name, NoNode)
         ELSE Bind(eat(txt, name, "EQUALS"),
                   LAMBDA equals :
                     IF equals.err # "none" THEN Parsed(equals, NoNode)
                     ELSE Bind(parse_expression(txt, equals),
                               LAMBDA definition :
                                 IF definition.st.err # "none" THEN definition
                                 ELSE Parsed(eat(txt, definition.st, "SEMICOLON"),
                                             Rule(st.tok.value, definition.node)))))

\* parse_grammar: the rules, or the exception that ended it; a current token
\* that is neither EOF nor an IDENTIFIER is never consumed, so the while loop
\* does not end ("loops")
RECURSIVE parse_grammar(_, _, _)
parse_grammar(txt, st, rules) ==
  IF st.err # "none" THEN [err |-> st.err, rules |-> rules]
  ELSE IF st.tok.type = "EOF" THEN [err |-> "none", rules |-> rules]
  ELSE IF st.tok.type # "IDENTIFIER" THEN [err |-> "loops", rules |-> rules]
  ELSE Bind(parse_rule(txt, st),
            LAMBDA r : IF r.st.err # "none" THEN [err |-> r.st.err, rules |-> rules]
                       ELSE parse_grammar(txt, r.st, Append(rules, r.node)))

\* ------------------------------------------------------------------------
\* GrammarParser.py (Prototype_2), the module the generators import for EBNF
\* text.  Its lexer's advance, skip_whitespace, identifier loop and terminal
\* compute what those modelled above compute.
\* ------------------------------------------------------------------------

GrammarParser_char_to_token(c) ==
  CASE c = "=" -> "EQUALS"
    [] c = ";" -> "SEMICOLON"
    [] c = "," -> "COMMA"
    [] c = "|" -> "PIPE"
    [] c = "(" -> "LPAREN"
    [] c = ")" -> "RPAREN"
    [] c = "{" -> "LBRACE"
    [] c = "}" -> "RBRACE"
    [] c = "[" -> "LBRACKET"
    [] c = "]" -> "RBRACKET"
    [] OTHER -> "None"

GrammarParser_identifier(txt, lx) ==
  LET r == IdentRun(txt, lx, << >>)
  IN  LexOk(r.lx, Token("IDENTIFIER", r.result, r.lx.line, lx.column))

RECURSIVE GrammarParser_get_next_token(_, _)
GrammarParser_get_next_token(txt, lx) ==
  LET c == lx.current_char
  IN  IF c = None THEN LexOk(lx, Token("EOF", << >>, lx.line, lx.column))
      ELSE IF IsSpaceChar(c)
           THEN GrammarParser_get_next_token(txt, skip_whitespace(txt, lx))
      ELSE IF IsAlphaChar(c) THEN GrammarParser_identifier(txt, lx)
      ELSE IF c = "\"" THEN GrammarLexer_terminal(txt, lx)
      ELSE IF GrammarParser_char_to_token(c) # "None"
           THEN LexOk(advance(txt, lx),
                      Token(GrammarParser_char_to_token(c), <<c>>, lx.line,
                            lx.column))
      ELSE LexRaise(lx, "Invalid character", lx.column)

\* GrammarParser.__init__
GrammarParser(txt) ==
  Bind(GrammarParser_get_next_token(txt, NewLexer(txt)),
       LAMBDA r : [lx |-> r.lx, tok |-> r.tok, err |-> r.err])

GrammarParser_eat(txt, st, token_type) ==
  IF st.tok.type = token_type
  THEN Bind(GrammarParser_get_next_token(txt, st.lx),
            LAMBDA r : [lx |-> r.lx,
                        tok |-> IF r.err = "none" THEN r.tok ELSE st.tok,
                        err |-> r.err])
  ELSE [st EXCEPT !.err = "Unexpected token"]

\* the node a bracketed expression is returned as
WrapAs(kind, node) ==
  CASE kind = "Repetition" -> Repetition(node)
    [] kind = "Optional" -> Optional(node)
    [] OTHER -> node

RECURSIVE GrammarParser_parse_expression(_, _)
RECURSIVE GrammarParser_MoreOptions(_, _, _)
RECURSIVE GrammarParser_parse_sequence(_, _)
RECURSIVE GrammarParser_MoreTerms(_, _, _)
RECURSIVE GrammarParser_parse_term(_, _)
RECURSIVE GrammarParser_bracketed(_, _, _, _, _)
\* eat(open); expr = self.parse_expression(); eat(close); return <kind>(expr)
GrammarParser_bracketed(txt, st, open, close, kind) ==
  Bind(GrammarParser_eat(txt, st, open),
       LAMBDA o :
         IF o.err # "none" THEN Parsed(o, NoNode)
         ELSE Bind(GrammarParser_parse_expression(txt, o),
                   LAMBDA expr :
                     IF expr.st.err # "none" THEN expr
                     ELSE Parsed(GrammarParser_eat(txt, expr.st, close),
                                 WrapAs(kind, expr.node))))

GrammarParser_parse_term(txt, st) ==
  CASE st.tok.type = "TERMINAL" ->
         Parsed(GrammarParser_eat(txt, st, "TERMINAL"), Terminal(st.tok.value))
    [] st.tok.type = "IDENTIFIER" ->
         Parsed(GrammarParser_eat(txt, st, "IDENTIFIER"),
                NonTerminal(st.tok.value))
    [] st.tok.type = "LPAREN" ->
         GrammarParser_bracketed(txt, st, "LPAREN", "RPAREN", "None")
    [] st.tok.type = "LBRACE" ->
         GrammarParser_bracketed(txt, st, "LBRACE", "RBRACE", "Repetition")
    [] st.tok.type = "LBRACKET" ->
         GrammarParser_bracketed(txt, st, "LBRACKET", "RBRACKET", "Optional")
    [] OTHER -> Parsed([st EXCEPT !.err = "Unexpected token"], NoNode)

\* the while loop of parse_sequence
GrammarParser_MoreTerms(txt, st, terms) ==
  IF st.tok.type = "COMMA"
  THEN Bind(GrammarParser_eat(txt, st, "COMMA"),
            LAMBDA comma :
              IF comma.err # "none" THEN Parsed(comma, NoNode)
              ELSE Bind(GrammarParser_parse_term(txt, comma),
                        LAMBDA t :
                          IF t.st.err # "none" THEN t
                          ELSE GrammarParser_MoreTerms(txt, t.st,
                                                       Append(terms, t.node))))
  ELSE Parsed(st, SequenceOf(terms))

GrammarParser_parse_sequence(txt, st) ==
  Bind(GrammarParser_parse_term(txt, st),
       LAMBDA t : IF t.st.err # "none" THEN t
                  ELSE GrammarParser_MoreTerms(txt, t.st, << t.node >>))

\* the while loop of parse_expression
GrammarParser_MoreOptions(txt, st, terms) ==
  IF st.tok.type = "PIPE"
  THEN Bind(GrammarParser_eat(txt, st, "PIPE"),
            LAMBDA bar :
              IF bar.err # "none" THEN Parsed(bar, NoNode)
              ELSE Bind(GrammarParser_parse_sequence(txt, bar),
                        LAMBDA s :
                          IF s.st.err # "none" THEN s
                          ELSE GrammarParser_MoreOptions(txt, s.st,
                                                         Append(terms, s.node))))
  ELSE Parsed(st, AlternativeOf(terms))

GrammarParser_parse_expression(txt, st) ==
  Bind(GrammarParser_parse_sequence(txt, st),
       LAMBDA s : IF s.st.err # "none" THEN s
                  ELSE GrammarParser_MoreOptions(txt, s.st, << s.node >>))

\* parse_rule where the current token is an IDENTIFIER
GrammarParser_parse_rule(txt, st) ==
  Bind(GrammarParser_eat(txt, st, "IDENTIFIER"),
       LAMBDA name :
         IF name.err # "none" THEN Parsed(name, NoNode)
         ELSE Bind(GrammarParser_eat(txt, name, "EQUALS"),
                   LAMBDA equals :
                     IF equals.err # "none" THEN Parsed(equals, NoNode)
                     ELSE Bind(GrammarParser_parse_expression(txt, equals),
                               LAMBDA definition :
                                 IF definition.st.err # "none" THEN definition
                                 ELSE Parsed(GrammarParser_eat(txt, definition.st,
                                                               "SEMICOLON"),
                                             Rule(st.tok.value, definition.node)))))

\* parse_grammar: where the current token is neither EOF nor an IDENTIFIER,
\* parse_rule returns None and has consumed nothing, so the while loop does
\* not end ("loops")
RECURSIVE GrammarParser_parse_grammar(_, _, _)
GrammarParser_parse_grammar(txt, st, rules) ==
  IF st.err # "none" THEN [err |-> st.err, rules |-> rules]
  ELSE IF st.tok.type = "EOF" THEN [err |-> "none", rules |-> rules]
  ELSE IF st.tok.type # "IDENTIFIER" THEN [err |-> "loops", rules |-> rules]
  ELSE Bind(GrammarParser_parse_rule(txt, st),
            LAMBDA r :
              IF r.st.err # "none" THEN [err |-> r.st.err, rules |-> rules]
              ELSE GrammarParser_parse_grammar(txt, r.st, Append(rules, r.node)))

\* ------------------------------------------------------------------------
\* ebnf_parser.py (Prototype_3): EBNFLexer and EBNFParser.  advance, peek
\* and skip_whitespace of BaseLexer compute what those of StandardLexer do.
\* ------------------------------------------------------------------------

\* BaseLexer.skip_comment: to the end of the line, and over the newline
BaseLexer_skip_comment(txt, lx) ==
  LET r == SkipLine(txt, lx)
  IN  IF r.current_char # None THEN advance(txt, r) ELSE r

RECURSIVE EBNFLexer_NameRun(_, _, _)
EBNFLexer_NameRun(txt, lx, result) ==
  IF lx.current_char # None
     /\ (IsAlnumChar(lx.current_char) \/ lx.current_char \in { "_", "-" })
  THEN EBNFLexer_NameRun(txt, advance(txt, lx), Append(result, lx.current_char))
  ELSE [lx |-> lx, result |-> result]

EBNFLexer_identifier(txt, lx) ==
  LET r == EBNFLexer_NameRun(txt, lx, << >>)
  IN  LexOk(r.lx, Token("IDENTIFIER", r.result, r.lx.line, lx.column))

\* the while loop of terminal: a backslash takes the next character as it is
RECURSIVE EBNFLexer_QuotedRun(_, _, _, _)
EBNFLexer_QuotedRun(txt, lx, quote_char, result) ==
  IF lx.current_char # None /\ lx.current_char # quote_char
  THEN IF lx.current_char = "\\"
       THEN LET esc == advance(txt, lx)
            IN  IF esc.current_char # None
                THEN EBNFLexer_QuotedRun(txt, advance(txt, esc), quote_char,
                                         Append(result, esc.current_char))
                ELSE EBNFLexer_QuotedRun(txt, esc, quote_char, result)
       ELSE EBNFLexer_QuotedRun(txt, advance(txt, lx), quote_char,
                                Append(result, lx.current_char))
  ELSE [lx |-> lx, result |-> result]

EBNFLexer_terminal(txt, lx) ==
  LET r == EBNFLexer_QuotedRun(txt, advance(txt, lx), lx.current_char, << >>)
  IN  IF r.lx.current_char = lx.current_char
      THEN LexOk(advance(txt, r.lx),
                 Token("TERMINAL", r.result, r.lx.line, lx.column))
      ELSE LexRaise(r.lx, "Unterminated string", lx.column)

EBNFLexer_char_to_token(c) ==
  CASE c = "=" -> "EQUALS"
    [] c = ";" -> "SEMICOLON"
    [] c = "," -> "COMMA"
    [] c = "|" -> "PIPE"
    [] c = "(" -> "LPAREN"
    [] c = ")" -> "RPAREN"
    [] c = "{" -> "LBRACE"
    [] c = "}" -> "RBRACE"
    [] c = "[" -> "LBRACKET"
    [] c = "]" -> "RBRACKET"
    [] c = "*" -> "STAR"
    [] c = "+" -> "PLUS"
    [] c = "?" -> "QUESTION"
    [] OTHER -> "None"

RECURSIVE EBNFLexer_get_next_token(_, _)
EBNFLexer_get_next_token(txt, lx) ==
  LET c == lx.current_char
  IN  IF c = None THEN LexOk(lx, Token("EOF", << >>, lx.line, lx.column))
      ELSE IF IsSpaceChar(c)
           THEN EBNFLexer_get_next_token(txt, skip_whitespace(txt, lx))
      ELSE IF c = "#"
           THEN EBNFLexer_get_next_token(txt, BaseLexer_skip_comment(txt, lx))
      ELSE IF IsAlphaChar(c) \/ c = "_" THEN EBNFLexer_identifier(txt, lx)
      ELSE IF c \in { "\"", "'" } THEN EBNFLexer_terminal(txt, lx)
      ELSE IF c = "-"
           THEN IF \/ lx.pos > 0 /\ IsAlnumChar(txt[lx.pos])
                   \/ peek(txt, lx) # None /\ IsAlnumChar(peek(txt, lx))
                THEN EBNFLexer_identifier(txt, lx)
                ELSE LexRaise(lx, "Invalid character", lx.column)
      ELSE IF EBNFLexer_char_to_token(c) # "None"
           THEN LexOk(advance(txt, lx),
                      Token(EBNFLexer_char_to_token(c), <<c>>, lx.line, lx.column))
      ELSE LexRaise(lx, "Invalid character", lx.column)

\* EBNFParser.__init__
EBNFParser(txt) ==
  Bind(EBNFLexer_get_next_token(txt, NewLexer(txt)),
       LAMBDA r : [lx |-> r.lx, tok |-> r.tok, err |-> r.err])

EBNFParser_eat(txt, st, token_type) ==
  IF st.tok.type = token_type
  THEN Bind(EBNFLexer_get_next_token(txt, st.lx),
            LAMBDA r : [lx |-> r.lx,
                        tok |-> IF r.err = "none" THEN r.tok ELSE st.tok,
                        err |-> r.err])
  ELSE [st EXCEPT !.err = "Syntax error"]

\* the end of parse_term: a STAR, PLUS or QUESTION after the term
EBNFParser_postfix(txt, st, term) ==
  CASE st.tok.type = "STAR" ->
         Parsed(EBNFParser_eat(txt, st, "STAR"), Repetition(term))
    [] st.tok.type = "PLUS" ->
         Parsed(EBNFParser_eat(txt, st, "PLUS"),
                Sequence(<< term, Repetition(term) >>))
    [] st.tok.type = "QUESTION" ->
         Parsed(EBNFParser_eat(txt, st, "QUESTION"), Optional(term))
    [] OTHER -> Parsed(st, term)

RECURSIVE EBNFParser_parse_expression(_, _)
RECURSIVE EBNFParser_MoreOptions(_, _, _)
RECURSIVE EBNFParser_parse_sequence(_, _)
RECURSIVE EBNFParser_MoreTerms(_, _, _)
RECURSIVE EBNFParser_parse_term(_, _)
RECURSIVE EBNFParser_bracketed(_, _, _, _, _)
\* eat(open); term = self.parse_expression(); eat(close), and for braces and
\* brackets: return <kind>(term)
EBNFParser_bracketed(txt, st, open, close, kind) ==
  Bind(EBNFParser_eat(txt, st, open),
       LAMBDA o :
         IF o.err # "none" THEN Parsed(o, NoNode)
         ELSE Bind(EBNFParser_parse_expression(txt, o),
                   LAMBDA expr :
                     IF expr.st.err # "none" THEN expr
                     ELSE Parsed(EBNFParser_eat(txt, expr.st, close),
                                 WrapAs(kind, expr.node))))

\* a terminal, an identifier or a parenthesised expression goes on to the
\* test for a postfix operator; a braced or bracketed one is returned
EBNFParser_parse_term(txt, st) ==
  CASE st.tok.type = "TERMINAL" ->
         Bind(EBNFParser_eat(txt, st, "TERMINAL"),
              LAMBDA a : IF a.err # "none" THEN Parsed(a, NoNode)
                         ELSE EBNFParser_postfix(txt, a, Terminal(st.tok.value)))
    [] st.tok.type = "IDENTIFIER" ->
         Bind(EBNFParser_eat(txt, st, "IDENTIFIER"),
              LAMBDA a : IF a.err # "none" THEN Parsed(a, NoNode)
                         ELSE EBNFParser_postfix(txt, a, NonTerminal(st.tok.value)))
    [] st.tok.type = "LPAREN" ->
         Bind(EBNFParser_bracketed(txt, st, "LPAREN", "RPAREN", "None"),
              LAMBDA g : IF g.st.err # "none" THEN g
                         ELSE EBNFParser_postfix(txt, g.st, g.node))
    [] st.tok.type = "LBRACE" ->
         EBNFParser_bracketed(txt, st, "LBRACE", "RBRACE", "Repetition")
    [] st.tok.type = "LBRACKET" ->
         EBNFParser_bracketed(txt, st, "LBRACKET", "RBRACKET", "Optional")
    [] OTHER -> Parsed([st EXCEPT !.err = "Syntax error"], NoNode)

\* the while loop of parse_sequence
EBNFParser_MoreTerms(txt, st, terms) ==
  IF st.tok.type = "COMMA"
  THEN Bind(EBNFParser_eat(txt, st, "COMMA"),
            LAMBDA comma :
              IF comma.err # "none" THEN Parsed(comma, NoNode)
              ELSE Bind(EBNFParser_parse_term(txt, comma),
                        LAMBDA t :
                          IF t.st.err # "none" THEN t
                          ELSE EBNFParser_MoreTerms(txt, t.st,
                                                    Append(terms, t.node))))
  ELSE Parsed(st, SequenceOf(terms))

EBNFParser_parse_sequence(txt, st) ==
  Bind(EBNFParser_parse_term(txt, st),
       LAMBDA t : IF t.st.err # "none" THEN t
                  ELSE EBNFParser_MoreTerms(txt, t.st, << t.node >>))

\* the while loop of parse_expression
EBNFParser_MoreOptions(txt, st, terms) ==
  IF st.tok.type = "PIPE"
  THEN Bind(EBNFParser_eat(txt, st, "PIPE"),
            LAMBDA bar :
              IF bar.err # "none" THEN Parsed(bar, NoNode)
              ELSE Bind(EBNFParser_parse_sequence(txt, bar),
                        LAMBDA s :
                          IF s.st.err # "none" THEN s
                          ELSE EBNFParser_MoreOptions(txt, s.st,
                                                      Append(terms, s.node))))
  ELSE Parsed(st, AlternativeOf(terms))

EBNFParser_parse_expression(txt, st) ==
  Bind(EBNFParser_parse_sequence(txt, st),
       LAMBDA s : IF s.st.err # "none" THEN s
                  ELSE EBNFParser_MoreOptions(txt, s.st, << s.node >>))

\* parse_rule: name = expression, and a semicolon if there is one
EBNFParser_parse_rule(txt, st) ==
  IF st.tok.type # "IDENTIFIER"
  THEN IF st.tok.type = "EOF" THEN Parsed(st, NoNode)
       ELSE Parsed([st EXCEPT !.err = "Syntax error"], NoNode)
  ELSE Bind(EBNFParser_eat(txt, st, "IDENTIFIER"),
            LAMBDA name :
              IF name.err # "none" THEN Parsed(name, NoNode)
              ELSE Bind(EBNFParser_eat(txt, name, "EQUALS"),
                        LAMBDA equals :
                          IF equals.err # "none" THEN Parsed(equals, NoNode)
                          ELSE Bind(EBNFParser_parse_expression(txt, equals),
                                    LAMBDA definition :
                                      IF definition.st.err # "none" THEN definition
                                      ELSE Parsed(
                                             IF definition.st.tok.type = "SEMICOLON"
                                             THEN EBNFParser_eat(txt, definition.st,
                                                                 "SEMICOLON")
                                             ELSE definition.st,
                                             Rule(st.tok.value, definition.node)))))

RECURSIVE EBNFParser_parse_grammar(_, _, _)
EBNFParser_parse_grammar(txt, st, rules) ==
  IF st.err # "none" THEN [err |-> st.err, rules |-> rules]
  ELSE IF st.tok.type = "EOF" THEN [err |-> "none", rules |-> rules]
  ELSE Bind(EBNFParser_parse_rule(txt, st),
            LAMBDA r :
              IF r.st.err # "none" THEN [err |-> r.st.err, rules |-> rules]
              ELSE EBNFParser_parse_grammar(
                     txt, r.st,
                     IF r.node = NoNode THEN rules ELSE Append(rules, r.node)))

\* the grammar texts given to the front end: the pieces of a BNF text put
\* together, and the source of the translation-unit rule
Pieces ==
  { << "<", "a", ">" >>, << "<", "b", "-", "c", ">" >>, << ":", ":", "=" >>,
    << "=" >>, << ";" >>, << "|" >>, << "\"", ":", ":", "=", "\"" >>,
    << "(" >>, << ")" >>, << " " >> }

RECURSIVE TextsOfPieces(_)
TextsOfPieces(n) ==
  IF n = 0 THEN { << >> }
  ELSE { t \o p : t \in TextsOfPieces(n - 1), p \in Pieces }

\* <translation-unit> ::= {<external-declaration>}*
BnfSource ==
  << "<", "t", "r", "a", "n", "s", "l", "a", "t", "i", "o", "n", "-", "u",
     "n", "i", "t", ">", " ", ":", ":", "=", " ", "{", "<", "e", "x", "t",
     "e", "r", "n", "a", "l", "-", "d", "e", "c", "l", "a", "r", "a", "t",
     "i", "o", "n", ">", "}", "*" >>

\* <a> = <b-c> "::=" | ( <a> ) ;
BnfQuoted ==
  << "<", "a", ">", " ", "=", " ", "<", "b", "-", "c", ">", " ", "\"", ":",
     ":", "=", "\"", " ", "|", " ", "(", " ", "<", "a", ">", " ", ")", " ",
     ";" >>

\* the pieces of the body of an EBNF rule
EbnfPieces ==
  { << "b" >>, << "\"", "x", "\"" >>, << "(", "b", ")" >>, << "{", "b", "}" >>,
    << "[", "b", "]" >>, << "*" >>, << "+" >>, << "?" >>, << "," >>, << "|" >>,
    << ";" >> }

RECURSIVE BodiesOfPieces(_)
BodiesOfPieces(n) ==
  IF n = 0 THEN { << >> }
  ELSE { t \o p : t \in BodiesOfPieces(n - 1), p \in EbnfPieces }

\* the EBNF texts: a= and then a body
EbnfTexts ==
  { << "a", "=" >> \o t : t \in UNION { BodiesOfPieces(n) : n \in 0..MaxPieces } }

MetaTexts ==
  { BnfSource, BnfQuoted } \cup UNION { TextsOfPieces(n) : n \in 0..MaxPieces }
    \cup EbnfTexts

\* ------------------------------------------------------------------------
\* The generated recognizer: GeneratedParser of parser_generator.py
\* ------------------------------------------------------------------------

VARIABLES
  grammar,        \* name of the grammar the recognizer was generated from
  text,           \* the input text
  memoized,       \* TRUE: rule methods carry @memoize (parser_generator.py);
                  \* FALSE: they do not (tests/expressions_tests)
  pc,             \* "grammar", "new", "ready", "parsing", "done"; "off"
                  \* while the front end of Prototype_3 runs
  lexer,          \* self.lexer: pos, line, column, current_char
  current_token,  \* self.current_token
  cache,          \* self._memoization_cache: <<name, pos>> -> [result, pos]
  stack,          \* the Python call stack below parse(), innermost last
  ctl,            \* what is evaluated next, or the value just returned
  outcome,        \* "none", "True", "SyntaxError", "Exception",
                  \* "AttributeError", "RecursionError"
  diag,           \* what the raised exception reports
  first,          \* result of the memoized run, kept for the plain run
  front           \* the grammar front end of Prototype_3: text, step, result

vars == << grammar, text, memoized, pc, lexer, current_token, cache, stack,
           ctl, outcome, diag, first, front >>

\* self.ast of the generator after __init__, and what it hands the recognizer
ast == _preprocess_grammar(Gast(grammar))

keywords == CollectKeywords(ast)

\* self.error_recovery_points = set()
error_recovery_points == {}

\* expected_value=None
NoValue == << None >>

Eval(node) == [op |-> "eval", node |-> node, val |-> FALSE]

Ret(val) == [op |-> "ret", node |-> NoNode, val |-> val]

Idle == [op |-> "idle", node |-> NoNode, val |-> FALSE]

NoDiag ==
  [line |-> 0, column |-> 0, expected |-> <<>>, got |-> NoToken, message |-> ""]

\* the front end of Prototype_3 is not running
FrontIdle ==
  [pc |-> "off", text |-> << >>, outcome |-> "none", message |-> "none",
   ast |-> << >>]

NoFirst ==
  [outcome |-> "none", diag |-> NoDiag, lexer |-> NewLexer(<<>>),
   current_token |-> NoToken]

\* the cursor state: lexer position, line, column and the lookahead token
Cursor(lx, tok) ==
  [pos |-> lx.pos, line |-> lx.line, column |-> lx.column, token |-> tok]

\* a frame of the call stack: a rule method (pos is its pos_start), a
\* _repeat_parse call (pos is its local pos) or an and / or expression being
\* evaluated (idx is the operand under evaluation); entry is the cursor at
\* the time the frame was entered (of _repeat_parse: at the time the turn of
\* the loop under way began)
Frame(kind, node, idx, pos) ==
  [kind |-> kind, node |-> node, idx |-> idx, pos |-> pos,
   entry |-> Cursor(lexer, current_token)]

Top == stack[Len(stack)]

Pop == SubSeq(stack, 1, Len(stack) - 1)

SetTop(f) == [stack EXCEPT ![Len(stack)] = f]

\* match as it would be if the requested lexeme were not compared
match_ignoring_value(txt, kws, lx, tok, expected_type, expected_value) ==
  IF tok.type = expected_type
  THEN LET r == get_next_token(txt, kws, lx)
       IN  IF r.err = "none"
           THEN [lx |-> r.lx, tok |-> r.tok, res |-> "True", raised |-> r]
           ELSE [lx |-> r.lx, tok |-> tok, res |-> "raise", raised |-> r]
  ELSE [lx |-> lx, tok |-> tok, res |-> "False", raised |-> LexOk(lx, tok)]

\* GeneratedParser.match, with next_token inlined: res is "True", "False" or
\* "raise" (the lexer raised inside next_token)
match(txt, kws, lx, tok, expected_type, expected_value) ==
  IF /\ tok.type = expected_type
     /\ (expected_value = NoValue \/ tok.value = expected_value)
  THEN LET r == get_next_token(txt, kws, lx)
       IN  IF r.err = "none"
           THEN [lx |-> r.lx, tok |-> r.tok, res |-> "True", raised |-> r]
           ELSE [lx |-> r.lx, tok |-> tok, res |-> "raise", raised |-> r]
  ELSE [lx |-> lx, tok |-> tok, res |-> "False", raised |-> LexOk(lx, tok)]

\* an exception of the lexer leaves the recognizer through parse()
LexDiag(r) ==
  [line |-> r.tok.line, column |-> r.tok.column, expected |-> <<>>,
   got |-> NoToken, message |-> r.err]

Init ==
  /\ grammar \in GrammarNames
  /\ text \in Inputs(grammar)
  /\ memoized = TRUE
  /\ pc = "grammar"
  /\ lexer = NewLexer(text)
  /\ current_token = NoToken
  /\ cache = << >>
  /\ stack = << >>
  /\ ctl = Idle
  /\ outcome = "none"
  /\ diag = NoDiag
  /\ first = NoFirst
  /\ front = FrontIdle

\* generate_parser_code: the recognizer is emitted, one method per rule of
\* the GAST that is not skipped; no rule and no reference is examined first
Generate ==
  /\ pc = "grammar"
  /\ pc' = "new"
  /\ UNCHANGED << front, grammar, text, memoized, lexer, current_token, cache,
                  stack, ctl, outcome, diag, first >>

\* GeneratedParser.__init__: the first next_token()
Construct ==
  /\ pc = "new"
  /\ LET r == get_next_token(text, keywords, lexer)
     IN  /\ lexer' = r.lx
         /\ IF r.err = "none"
            THEN /\ current_token' = r.tok
                 /\ pc' = "ready"
                 /\ UNCHANGED << outcome, diag >>
            ELSE /\ current_token' = current_token
                 /\ pc' = "done"
                 /\ outcome' = "Exception"
                 /\ diag' = LexDiag(r)
  /\ UNCHANGED << front, grammar, text, memoized, cache, stack, ctl, first >>

\* parse(): the call self.parse_<start>()
Parse ==
  /\ pc = "ready"
  /\ pc' = "parsing"
  /\ ctl' = Eval(NonTerminal(StartName(ast)))
  /\ UNCHANGED << front, grammar, text, memoized, lexer, current_token, cache, stack,
                  outcome, diag, first >>

Evaluating(type) == pc = "parsing" /\ ctl.op = "eval" /\ ctl.node.type = type

Returning(kind) ==
  pc = "parsing" /\ ctl.op = "ret" /\ Len(stack) > 0 /\ Top.kind = kind

\* a call of self.match(expected_type, expected_value) as an operand
MatchCall(expected_type, expected_value) ==
  LET m == match(text, keywords, lexer, current_token, expected_type, expected_value)
  IN  /\ lexer' = m.lx
      /\ current_token' = m.tok
      /\ IF m.res = "raise"
         THEN /\ pc' = "done"
              /\ outcome' = "Exception"
              /\ diag' = LexDiag(m.raised)
              /\ stack' = << >>
              /\ ctl' = Idle
         ELSE /\ ctl' = Ret(m.res = "True")
              /\ UNCHANGED << pc, outcome, diag, stack >>

\* _generate_node_code for a non-empty Terminal: the arguments of the match
\* it emits (a reserved name calls its built-in, which is match(<type>))
TerminalMatch(v) ==
  IF v \in SpecialValues THEN [type |-> SpecialType(v), value |-> NoValue]
  ELSE IF IsAlpha(v) THEN [type |-> "KEYWORD", value |-> v]
  ELSE [type |-> "SYMBOL", value |-> v]

\* a Terminal operand: the literal True for "", else a match
EvalTerminal ==
  /\ Evaluating("Terminal")
  /\ LET v == ctl.node.value
     IN  IF v = << >>
         THEN /\ ctl' = Ret(TRUE)
              /\ UNCHANGED << lexer, current_token, pc, outcome, diag, stack >>
         ELSE MatchCall(TerminalMatch(v).type, TerminalMatch(v).value)
  /\ UNCHANGED << front, grammar, text, memoized, cache, first >>

\* self.parse_<name>() of a name that has an emitted rule method: the memoize
\* wrapper misses (or there is no wrapper) and the method body starts
CallRule ==
  /\ Evaluating("NonTerminal")
  /\ ctl.node.name \in EmittedNames(ast)
  /\ ~(memoized /\ << ctl.node.name, lexer.pos >> \in DOMAIN cache)
  /\ Len(stack) < MaxDepth
  /\ stack' = Append(stack, Frame("rule", ctl.node, 0, lexer.pos))
  /\ ctl' = Eval(LastRule(ast, ctl.node.name).definition)
  /\ UNCHANGED << front, grammar, text, memoized, pc, lexer, current_token, cache,
                  outcome, diag, first >>

\* the call of a rule method that exceeds the recursion limit: RecursionError
RecursionLimit ==
  /\ Evaluating("NonTerminal")
  /\ ctl.node.name \in EmittedNames(ast)
  /\ ~(memoized /\ << ctl.node.name, lexer.pos >> \in DOMAIN cache)
  /\ Len(stack) >= MaxDepth
  /\ pc' = "done"
  /\ outcome' = "RecursionError"
  /\ stack' = << >>
  /\ ctl' = Idle
  /\ UNCHANGED << front, grammar, text, memoized, lexer, current_token, cache,
                  diag, first >>

\* the memoize wrapper finds (name, lexer.pos) in the cache
CacheHit ==
  /\ Evaluating("NonTerminal")
  /\ ctl.node.name \in EmittedNames(ast)
  /\ memoized
  /\ << ctl.node.name, lexer.pos >> \in DOMAIN cache
  /\ LET hit == cache[<< ctl.node.name, lexer.pos >>]
     IN  /\ lexer' = [lexer EXCEPT !.pos = hit.pos]
         /\ ctl' = Ret(hit.result)
  /\ UNCHANGED << front, grammar, text, memoized, pc, current_token, cache, stack,
                  outcome, diag, first >>

\* self.parse_identifier() / parse_integerConstant() / parse_stringLiteral()
CallBuiltin ==
  /\ Evaluating("NonTerminal")
  /\ ctl.node.name \notin EmittedNames(ast)
  /\ BuiltinType(ctl.node.name) # "None"
  /\ MatchCall(BuiltinType(ctl.node.name), NoValue)
  /\ UNCHANGED << front, grammar, text, memoized, cache, first >>

\* self.parse_<name>() of a name the recognizer has no method for
CallUndefined ==
  /\ Evaluating("NonTerminal")
  /\ ctl.node.name \notin EmittedNames(ast)
  /\ BuiltinType(ctl.node.name) = "None"
  /\ pc' = "done"
  /\ outcome' = "AttributeError"
  /\ stack' = << >>
  /\ ctl' = Idle
  /\ UNCHANGED << front, grammar, text, memoized, lexer, current_token, cache, diag,
                  first >>

\* the rule method returns: roll lexer.pos back on failure, fill the cache
RetRule ==
  /\ Returning("rule")
  /\ LET lx == IF ctl.val THEN lexer ELSE [lexer EXCEPT !.pos = Top.pos]
         key == << Top.node.name, Top.pos >>
     IN  /\ lexer' = lx
         /\ cache' = IF memoized
                     THEN [k \in DOMAIN cache \cup { key } |->
                             IF k = key THEN [result |-> ctl.val, pos |-> lx.pos]
                             ELSE cache[k]]
                     ELSE cache
  /\ stack' = Pop
  /\ ctl' = Ret(ctl.val)
  /\ UNCHANGED << front, grammar, text, memoized, pc, current_token, outcome, diag,
                  first >>

\* a Sequence: the operands of "and", evaluated in order
EvalSequence ==
  /\ Evaluating("Sequence")
  /\ stack' = Append(stack, Frame("Sequence", ctl.node, 1, lexer.pos))
  /\ ctl' = Eval(ctl.node.items[1])
  /\ UNCHANGED << front, grammar, text, memoized, pc, lexer, current_token, cache,
                  outcome, diag, first >>

\* "a and b": a false operand is the value, else the next operand is evaluated
SequenceStep(f, val) ==
  IF val /\ f.idx < Len(f.node.items)
  THEN [done |-> FALSE, val |-> val, idx |-> f.idx + 1]
  ELSE [done |-> TRUE, val |-> val, idx |-> f.idx]

RetSequence ==
  /\ Returning("Sequence")
  /\ LET st == SequenceStep(Top, ctl.val)
     IN  IF st.done
         THEN /\ stack' = Pop
              /\ ctl' = Ret(st.val)
         ELSE /\ stack' = SetTop([Top EXCEPT !.idx = st.idx])
              /\ ctl' = Eval(Top.node.items[st.idx])
  /\ UNCHANGED << front, grammar, text, memoized, pc, lexer, current_token, cache,
                  outcome, diag, first >>

\* an Alternative: the operands of "or", evaluated in order
EvalAlternative ==
  /\ Evaluating("Alternative")
  /\ stack' = Append(stack, Frame("Alternative", ctl.node, 1, lexer.pos))
  /\ ctl' = Eval(ctl.node.options[1])
  /\ UNCHANGED << front, grammar, text, memoized, pc, lexer, current_token, cache,
                  outcome, diag, first >>

\* an "or" that evaluates every operand instead of stopping at a true one
AlternativeStepEager(f, val) ==
  IF f.idx < Len(f.node.options)
  THEN [done |-> FALSE, val |-> val, idx |-> f.idx + 1]
  ELSE [done |-> TRUE, val |-> val, idx |-> f.idx]

\* "a or b": a true operand is the value, else the next operand is evaluated
AlternativeStep(f, val) ==
  IF ~val /\ f.idx < Len(f.node.options)
  THEN [done |-> FALSE, val |-> val, idx |-> f.idx + 1]
  ELSE [done |-> TRUE, val |-> val, idx |-> f.idx]

RetAlternative ==
  /\ Returning("Alternative")
  /\ LET st == AlternativeStep(Top, ctl.val)
     IN  IF st.done
         THEN /\ stack' = Pop
              /\ ctl' = Ret(st.val)
         ELSE /\ stack' = SetTop([Top EXCEPT !.idx = st.idx])
              /\ ctl' = Eval(Top.node.options[st.idx])
  /\ UNCHANGED << front, grammar, text, memoized, pc, lexer, current_token, cache,
                  outcome, diag, first >>

\* _repeat_parse is entered: pos = self.lexer.pos, then parse_fn()
EvalRepetition ==
  /\ Evaluating("Repetition")
  /\ stack' = Append(stack, Frame("Repetition", ctl.node, 1, lexer.pos))
  /\ ctl' = Eval(ctl.node.item)
  /\ UNCHANGED << front, grammar, text, memoized, pc, lexer, current_token, cache,
                  outcome, diag, first >>

\* one turn of the while loop of _repeat_parse after parse_fn() returned val:
\* break (with lexer.pos = pos) or go round again
RepeatStep(f, val, lx) ==
  IF val
  THEN [break |-> FALSE, lx |-> lx, pos |-> lx.pos]
  ELSE [break |-> TRUE, lx |-> [lx EXCEPT !.pos = f.pos], pos |-> f.pos]

RetRepetition ==
  /\ Returning("Repetition")
  /\ LET st == RepeatStep(Top, ctl.val, lexer)
     IN  /\ lexer' = st.lx
         /\ IF st.break
            THEN /\ stack' = Pop
                 /\ ctl' = Ret(TRUE)
            ELSE /\ stack' = SetTop([Top EXCEPT
                                          !.pos = st.pos,
                                          !.entry = Cursor(lexer, current_token)])
                 /\ ctl' = Eval(Top.node.item)
  /\ UNCHANGED << front, grammar, text, memoized, pc, current_token, cache, outcome,
                  diag, first >>

\* an Optional: (inner or True)
EvalOptional ==
  /\ Evaluating("Optional")
  /\ stack' = Append(stack, Frame("Optional", ctl.node, 1, lexer.pos))
  /\ ctl' = Eval(ctl.node.item)
  /\ UNCHANGED << front, grammar, text, memoized, pc, lexer, current_token, cache,
                  outcome, diag, first >>

RetOptional ==
  /\ Returning("Optional")
  /\ stack' = Pop
  /\ ctl' = Ret(ctl.val \/ TRUE)
  /\ UNCHANGED << front, grammar, text, memoized, pc, lexer, current_token, cache,
                  outcome, diag, first >>

\* _try_error_recovery: scan forward to EOF or to a recovery point
RECURSIVE _try_error_recovery(_, _, _, _)
_try_error_recovery(txt, kws, lx, tok) ==
  IF tok.type = "EOF"
  THEN [lx |-> lx, tok |-> tok, recovered |-> FALSE, raised |-> LexOk(lx, tok)]
  ELSE LET r == get_next_token(txt, kws, lx)
       IN  IF r.err # "none"
           THEN [lx |-> r.lx, tok |-> tok, recovered |-> FALSE, raised |-> r]
           ELSE IF tok.value \in error_recovery_points
                THEN [lx |-> r.lx, tok |-> r.tok, recovered |-> TRUE,
                      raised |-> LexOk(r.lx, r.tok)]
                ELSE _try_error_recovery(txt, kws, r.lx, r.tok)

\* error(expected): always raises; SyntaxError unless the recovery scan raised
error(expected) ==
  LET rec == _try_error_recovery(text, keywords, lexer, current_token)
  IN  /\ lexer' = rec.lx
      /\ current_token' = rec.tok
      /\ IF rec.raised.err = "none"
         THEN /\ outcome' = "SyntaxError"
              /\ diag' = [line |-> lexer.line, column |-> lexer.column,
                          expected |-> expected, got |-> current_token,
                          message |-> "Syntax error"]
         ELSE /\ outcome' = "Exception"
              /\ diag' = LexDiag(rec.raised)

\* parse() after self.parse_<start>() returned
ParseReturn ==
  /\ pc = "parsing"
  /\ ctl.op = "ret"
  /\ stack = << >>
  /\ IF ~ctl.val THEN error(<< "valid", StartName(ast) >>)
     ELSE IF current_token.type # "EOF" THEN error(<< "end of input" >>)
     ELSE /\ outcome' = "True"
          /\ UNCHANGED << lexer, current_token, diag >>
  /\ pc' = "done"
  /\ ctl' = Idle
  /\ UNCHANGED << front, grammar, text, memoized, cache, stack, first >>

\* the same text is given to the recognizer generated without @memoize
ConstructPlain ==
  /\ pc = "done"
  /\ memoized
  /\ first' = [outcome |-> outcome, diag |-> diag, lexer |-> lexer,
               current_token |-> current_token]
  /\ memoized' = FALSE
  /\ pc' = "new"
  /\ lexer' = NewLexer(text)
  /\ current_token' = NoToken
  /\ cache' = << >>
  /\ outcome' = "none"
  /\ diag' = NoDiag
  /\ UNCHANGED << front, grammar, text, stack, ctl >>

Next ==
  \/ Generate
  \/ Construct
  \/ Parse
  \/ EvalTerminal
  \/ CallRule
  \/ RecursionLimit
  \/ CacheHit
  \/ CallBuiltin
  \/ CallUndefined
  \/ RetRule
  \/ EvalSequence
  \/ RetSequence
  \/ EvalAlternative
  \/ RetAlternative
  \/ EvalRepetition
  \/ RetRepetition
  \/ EvalOptional
  \/ RetOptional
  \/ ParseReturn
  \/ ConstructPlain

Spec == Init /\ [][Next]_vars

\* ------------------------------------------------------------------------
\* The front end of Prototype_3 run on a grammar text
\* ------------------------------------------------------------------------

\* front.pc: "start"; "bnf" / "ebnf" once the format is detected; "done"
\* when BNFParser or GrammarParser returned or raised; "loops" when
\* parse_grammar does not return; "returned" when EBNFParser returned or
\* raised
FrontInit ==
  /\ front \in { [FrontIdle EXCEPT !.pc = "start", !.text = t] : t \in MetaTexts }
  /\ grammar = "none"
  /\ text = << >>
  /\ memoized = FALSE
  /\ pc = "off"
  /\ lexer = NewLexer(<< >>)
  /\ current_token = NoToken
  /\ cache = << >>
  /\ stack = << >>
  /\ ctl = Idle
  /\ outcome = "none"
  /\ diag = NoDiag
  /\ first = NoFirst

\* ParserGenerator.__init__: if self._is_bnf_grammar(grammar) ... else ...
DetectFormat ==
  /\ front.pc = "start"
  /\ front' = [front EXCEPT
                 !.pc = IF _is_bnf_grammar(front.text) THEN "bnf" ELSE "ebnf"]
  /\ UNCHANGED << grammar, text, memoized, pc, lexer, current_token, cache,
                  stack, ctl, outcome, diag, first >>

\* the BNF branch: self.ast = BNFParser(grammar).parse_grammar(), and any
\* exception is raised again as ValueError("Error parsing BNF: ...")
ParseBnf ==
  /\ front.pc = "bnf"
  /\ \E r \in { parse_grammar(front.text, BNFParser(front.text), << >>) } :
       front' =
         CASE r.err = "none" ->
                [front EXCEPT !.pc = "done", !.outcome = "ast", !.ast = r.rules]
           [] r.err = "loops" -> [front EXCEPT !.pc = "loops"]
           [] OTHER ->
                [front EXCEPT !.pc = "done", !.outcome = "ValueError",
                              !.message = r.err]
  /\ UNCHANGED << grammar, text, memoized, pc, lexer, current_token, cache,
                  stack, ctl, outcome, diag, first >>

\* the EBNF branch: parser = GrammarParser(grammar) and
\* self.ast = parser.parse_grammar(); an exception leaves __init__ as it is
ParseEbnf ==
  /\ front.pc = "ebnf"
  /\ \E r \in { GrammarParser_parse_grammar(front.text, GrammarParser(front.text),
                                            << >>) } :
       front' =
         CASE r.err = "none" ->
                [front EXCEPT !.pc = "done", !.outcome = "ast", !.ast = r.rules]
           [] r.err = "loops" -> [front EXCEPT !.pc = "loops"]
           [] OTHER ->
                [front EXCEPT !.pc = "done", !.outcome = "Exception",
                              !.message = r.err]
  /\ UNCHANGED << grammar, text, memoized, pc, lexer, current_token, cache,
                  stack, ctl, outcome, diag, first >>

\* the text is given to the EBNF parser of ebnf_parser.py instead:
\* EBNFParser(text).parse_grammar()
RunEBNFParser ==
  /\ front.pc = "start"
  /\ \E r \in { EBNFParser_parse_grammar(front.text, EBNFParser(front.text),
                                         << >>) } :
       front' =
         IF r.err = "none"
         THEN [front EXCEPT !.pc = "returned", !.outcome = "ast", !.ast = r.rules]
         ELSE [front EXCEPT !.pc = "returned", !.outcome = "Exception",
                            !.message = r.err]
  /\ UNCHANGED << grammar, text, memoized, pc, lexer, current_token, cache,
                  stack, ctl, outcome, diag, first >>

FrontNext ==
  \/ DetectFormat
  \/ ParseBnf
  \/ ParseEbnf
  \/ RunEBNFParser

FrontSpec == FrontInit /\ [][FrontNext]_vars

\* ------------------------------------------------------------------------
\* The ordered-choice language of a grammar, over the token stream of a text
\* ------------------------------------------------------------------------

\* the tokens of a text up to EOF, and whether the whole text lexes
RECURSIVE TokensFrom(_, _, _, _)
TokensFrom(txt, kws, lx, acc) ==
  LET r == get_next_token(txt, kws, lx)
  IN  IF r.err # "none" THEN [ok |-> FALSE, toks |-> acc]
      ELSE IF r.tok.type = "EOF" THEN [ok |-> TRUE, toks |-> acc]
      ELSE TokensFrom(txt, kws, r.lx, Append(acc, r.tok))

Tokens(txt, kws) == TokensFrom(txt, kws, NewLexer(txt), << >>)

TokenIs(toks, i, type, value) ==
  /\ i <= Len(toks)
  /\ toks[i].type = type
  /\ (value = NoValue \/ toks[i].value = value)

\* Ordered choice with full backtracking: the index after the span the node
\* matches from token i, or 0 when it does not match.  A repetition stops
\* when its item fails or matches without consuming.
RECURSIVE Matches(_, _, _, _)
RECURSIVE MatchesSeq(_, _, _, _, _)
RECURSIVE MatchesAlt(_, _, _, _, _)
RECURSIVE MatchesRep(_, _, _, _)
Matches(g, toks, node, i) ==
  CASE node.type = "Terminal" ->
         IF node.value = << >> THEN i
         ELSE IF node.value \in SpecialValues
              THEN IF TokenIs(toks, i, SpecialType(node.value), NoValue)
                   THEN i + 1 ELSE 0
         ELSE IF TokenIs(toks, i, IF IsAlpha(node.value) THEN "KEYWORD" ELSE "SYMBOL",
                         node.value)
              THEN i + 1 ELSE 0
    [] node.type = "NonTerminal" ->
         IF node.name \in EmittedNames(g)
         THEN Matches(g, toks, LastRule(g, node.name).definition, i)
         ELSE IF BuiltinType(node.name) # "None"
                 /\ TokenIs(toks, i, BuiltinType(node.name), NoValue)
              THEN i + 1 ELSE 0
    [] node.type = "Sequence" -> MatchesSeq(g, toks, node.items, 1, i)
    [] node.type = "Alternative" -> MatchesAlt(g, toks, node.options, 1, i)
    [] node.type = "Repetition" -> MatchesRep(g, toks, node.item, i)
    [] node.type = "Optional" ->
         LET j == Matches(g, toks, node.item, i) IN IF j = 0 THEN i ELSE j

MatchesSeq(g, toks, items, k, i) ==
  IF k > Len(items) THEN i
  ELSE LET j == Matches(g, toks, items[k], i)
       IN  IF j = 0 THEN 0 ELSE MatchesSeq(g, toks, items, k + 1, j)

MatchesAlt(g, toks, options, k, i) ==
  IF k > Len(options) THEN 0
  ELSE LET j == Matches(g, toks, options[k], i)
       IN  IF j # 0 THEN j ELSE MatchesAlt(g, toks, options, k + 1, i)

MatchesRep(g, toks, item, i) ==
  LET j == Matches(g, toks, item, i)
  IN  IF j = 0 \/ j = i THEN i ELSE MatchesRep(g, toks, item, j)

\* the start rule matches exactly the whole token stream
InLanguage(g, txt) ==
  LET t == Tokens(txt, CollectKeywords(g))
  IN  /\ t.ok
      /\ Matches(g, t.toks, NonTerminal(StartName(g)), 1) = Len(t.toks) + 1

\* ------------------------------------------------------------------------
\* Properties
\* ------------------------------------------------------------------------

\* the next step is the return of a rule method whose body was false
RuleBodyFailed == Returning("rule") /\ ~ctl.val

\* C1: whenever a rule predicate parse_<name> returns false, the cursor state
\* after the call (lexer position, line, column and lookahead token) equals
\* the cursor state from which it was called.
C1_RollBackIdempotence ==
  [][RuleBodyFailed => Cursor(lexer', current_token') = Top.entry]_vars

\* C2: the recognizer of s = "a","b" | "a","c"; accepts the input ac.
C2_BacktrackAccepted ==
  (grammar = "backtrack" /\ text = << "a", "c" >> /\ pc = "done")
    => outcome = "True"

\* every NonTerminal of the grammar names an emitted rule or a built-in
Resolves(g) ==
  \A n \in AllNodes(g) :
    n.type = "NonTerminal" =>
      n.name \in EmittedNames(g) \/ BuiltinType(n.name) # "None"

\* C3: for a grammar whose references all resolve, parse() returns true if
\* and only if the start rule matches exactly the whole token stream of the
\* input, by ordered choice.
C3_AcceptanceIsLanguage ==
  (pc = "done" /\ Resolves(ast))
    => (outcome = "True" <=> InLanguage(ast, text))

\* a turn of the zero-or-more loop whose body succeeded where it started
ZeroConsumptionTurn ==
  Returning("Repetition") /\ ctl.val /\ lexer.pos = Top.pos

\* C4: the zero-or-more loop terminates: after a turn whose body succeeded
\* without consuming, the loop exits instead of running the body again.
C4_RepeatExitsOnZeroConsumption ==
  [][ZeroConsumptionTurn => Len(stack') < Len(stack)]_vars

\* C5: the recognizer with memoized rule methods ends with the same verdict
\* and the same cursor state as the recognizer without memoization.
C5_MemoizationTransparent ==
  (pc = "done" /\ ~memoized)
    => /\ first.outcome = outcome
       /\ first.lexer = lexer
       /\ first.current_token = current_token

\* the step starts option number idx' of the Alternative on top of the stack
StartsOption ==
  /\ ctl'.op = "eval"
  /\ Len(stack') > 0
  /\ stack'[Len(stack')].kind = "Alternative"

\* C6: the options of an Alternative are attempted strictly left to right,
\* each only after the one before it returned false, and once an option
\* returns true no later option is attempted in that evaluation.
C6_OrderedChoice ==
  [][/\ StartsOption =>
          \/ /\ Len(stack') = Len(stack) + 1
             /\ stack'[Len(stack')].idx = 1
             /\ ctl'.node = stack'[Len(stack')].node.options[1]
          \/ /\ Returning("Alternative")
             /\ ~ctl.val
             /\ Len(stack') = Len(stack)
             /\ stack'[Len(stack')].idx = Top.idx + 1
             /\ ctl'.node = Top.node.options[Top.idx + 1]
     /\ (Returning("Alternative") /\ ctl.val) =>
          /\ stack' = Pop
          /\ ctl' = Ret(TRUE)]_vars

\* an option returned true while later options of the Alternative remain
C6_Witness ==
  /\ Returning("Alternative")
  /\ ctl.val
  /\ Top.idx < Len(Top.node.options)

\* the next step is a call of match: by a non-empty Terminal or by a built-in
IsMatchCall ==
  \/ Evaluating("Terminal") /\ ctl.node.value # << >>
  \/ /\ Evaluating("NonTerminal")
     /\ ctl.node.name \notin EmittedNames(ast)
     /\ BuiltinType(ctl.node.name) # "None"

\* the kind and lexeme that call requests
Requested ==
  IF ctl.node.type = "Terminal" THEN TerminalMatch(ctl.node.value)
  ELSE [type |-> BuiltinType(ctl.node.name), value |-> NoValue]

LookaheadHasRequested ==
  /\ current_token.type = Requested.type
  /\ (Requested.value = NoValue \/ current_token.value = Requested.value)

\* C7: a call of match that finds the requested kind (and lexeme, when one
\* is given) in the lookahead returns true with the lookahead advanced by
\* one token of the lexer (unless the lexer raises on that token); any other
\* call returns false and leaves lexer state and lookahead unchanged.
C7_MatchFrame ==
  [][IsMatchCall =>
       IF LookaheadHasRequested
       THEN LET r == get_next_token(text, keywords, lexer)
            IN  IF r.err = "none"
                THEN /\ ctl' = Ret(TRUE)
                     /\ current_token' = r.tok
                     /\ lexer' = r.lx
                ELSE /\ outcome' = "Exception"
                     /\ current_token' = current_token
       ELSE /\ ctl' = Ret(FALSE)
            /\ lexer' = lexer
            /\ current_token' = current_token]_vars

\* a Terminal operand of a Sequence matched, and the lookahead has moved on
C7_Witness ==
  /\ pc = "parsing"
  /\ ctl = Ret(TRUE)
  /\ Len(stack) > 0
  /\ Top.kind = "Sequence"
  /\ Top.node.items[Top.idx].type = "Terminal"
  /\ Top.node.items[Top.idx].value # << >>
  /\ current_token # Top.entry.token

\* parse_<start>() has returned to parse()
StartReturned == pc = "parsing" /\ ctl.op = "ret" /\ stack = << >>

\* C8: parse() never returns false; a failed start rule raises the
\* diagnostic expecting "valid <start>", a matched start rule before a
\* lookahead that is not EOF raises the diagnostic expecting "end of input",
\* and only a matched start rule before EOF returns true.
C8_ParseVerdict ==
  [][StartReturned =>
       /\ outcome' \in { "True", "SyntaxError" }
       /\ ~ctl.val =>
            /\ outcome' = "SyntaxError"
            /\ diag'.expected = << "valid", StartName(ast) >>
       /\ (ctl.val /\ current_token.type # "EOF") =>
            /\ outcome' = "SyntaxError"
            /\ diag'.expected = << "end of input" >>
       /\ outcome' = "True" <=> (ctl.val /\ current_token.type = "EOF")]_vars

\* C9: the "end of input" diagnostic reports the line and the column of the
\* first remaining token, the lookahead it names as seen.
C9_TrailingGarbagePosition ==
  (pc = "done" /\ outcome = "SyntaxError" /\ diag.expected = << "end of input" >>)
    => /\ diag.line = diag.got.line
       /\ diag.column = diag.got.column

\* the expectation integerConstant or "("
ExpectedFactor == << "integerConstant", "(" >>

\* C10: the arithmetic recognizer accepts 4*(5+6) and rejects 3+*6 with a
\* diagnostic at column 3 that expects integerConstant or "(".
C10_ArithmeticScenario ==
  (grammar = "arith" /\ pc = "done")
    => /\ text = TextAccept => outcome = "True"
       /\ text = TextReject =>
            /\ outcome = "SyntaxError"
            /\ diag.line = 1
            /\ diag.column = 3
            /\ diag.expected = ExpectedFactor

\* parse() ended with the lexer's exception for a character it rejects; the
\* lexer stands on that character
InvalidCharacter ==
  pc = "done" /\ outcome = "Exception" /\ diag.message = "Invalid character"

\* C11: the target lexer never raises an invalid-character error on a
\* character that is a single-character symbol terminal of the grammar: the
\* symbols the generator collected are SYMBOL tokens of the lexer.
C11_GrammarSymbolsAreTokens ==
  InvalidCharacter => << lexer.current_char >> \notin CollectSymbols(ast)

\* C12: the recognizer of number = digit,{digit}; digit = "0"|...|"9";
\* accepts the input 123.
C12_NumberIdiomAccepted ==
  (grammar = "number" /\ text = << "1", "2", "3" >> /\ pc = "done")
    => outcome = "True"

\* C13: a recognizer is emitted only for a grammar in which every
\* NonTerminal names a rule with a method or a built-in: a grammar with a
\* dangling reference is rejected before emission.
C13_DanglingRejected == pc # "grammar" => Resolves(ast)

\* the node begins with a reference to the rule called name
BeginsWith(node, name) ==
  \/ node.type = "NonTerminal" /\ node.name = name
  \/ /\ node.type = "Sequence"
     /\ node.items[1].type = "NonTerminal"
     /\ node.items[1].name = name

\* a rule whose definition is an Alternative whose first option begins with
\* a reference to the rule itself
DirectLeftRecursive(g) ==
  \E i \in 1..Len(g) :
    /\ g[i].definition.type = "Alternative"
    /\ BeginsWith(g[i].definition.options[1], g[i].name)

\* C14: a recognizer is emitted only for a grammar without a directly
\* left-recursive rule: such a grammar is rejected by the generator.
C14_LeftRecursionRejected == pc # "grammar" => ~DirectLeftRecursive(ast)

\* the text opens a block comment, outside any comment or string, that no
\* later */ closes
UnclosedComment(txt) ==
  \E i \in 1..(Len(txt) - 1) :
    /\ txt[i] = "/"
    /\ txt[i + 1] = "*"
    /\ \A k \in 1..(i - 1) : txt[k] \notin { "/", "\"" }
    /\ ~\E j \in (i + 2)..(Len(txt) - 1) : txt[j] = "*" /\ txt[j + 1] = "/"

\* C15: on a text with a block comment that is opened and never closed the
\* parse fails with the error the lexer raises; the comment is never taken
\* for the end of the input.
C15_UnterminatedCommentRaises ==
  (pc = "done" /\ UnclosedComment(text)) => outcome = "Exception"

\* the text opens a string, outside any comment or string, that holds a
\* newline before its closing quote
NewLineInStr(txt) ==
  \E i \in 1..Len(txt) :
    /\ txt[i] = "\""
    /\ \A k \in 1..(i - 1) : txt[k] \notin { "/", "\"" }
    /\ \E j \in (i + 1)..Len(txt) :
         /\ txt[j] = "\n"
         /\ \A k \in (i + 1)..(j - 1) : txt[k] # "\""

\* C16: on a text with a string literal that holds a newline before its
\* closing quote the parse fails with the error the lexer raises.
C16_NewLineInStringRaises ==
  (pc = "done" /\ NewLineInStr(text)) => outcome = "Exception"

\* the messages of the exceptions the target lexer raises
LexErrors == { "Invalid character", "Unterminated string" }

\* C17: a lex error met while the recognizer fetches a token (in __init__,
\* in match or in the recovery scan of error()) leaves parse() as the
\* SyntaxError diagnostic of the recognizer.
C17_LexErrorIsSyntaxError ==
  (pc = "done" /\ diag.message \in LexErrors) => outcome = "SyntaxError"

\* the node matches the empty token stream (a reference to a built-in never
\* does; a Repetition and an Optional always do)
RECURSIVE Nullable(_, _)
RECURSIVE NullableAll(_, _, _)
RECURSIVE NullableAny(_, _, _)
Nullable(g, node) ==
  CASE node.type = "Terminal" -> node.value = << >>
    [] node.type = "NonTerminal" ->
         /\ node.name \in EmittedNames(g)
         /\ Nullable(g, LastRule(g, node.name).definition)
    [] node.type = "Sequence" -> NullableAll(g, node.items, 1)
    [] node.type = "Alternative" -> NullableAny(g, node.options, 1)
    [] OTHER -> TRUE

NullableAll(g, items, k) ==
  IF k > Len(items) THEN TRUE
  ELSE IF Nullable(g, items[k]) THEN NullableAll(g, items, k + 1) ELSE FALSE

NullableAny(g, options, k) ==
  IF k > Len(options) THEN FALSE
  ELSE IF Nullable(g, options[k]) THEN TRUE ELSE NullableAny(g, options, k + 1)

\* a grammar the data model admits: every reference resolves and no rule is
\* directly left-recursive
WellFormed(g) == Resolves(g) /\ ~DirectLeftRecursive(g)

TranslationUnitRule ==
  Rule(<< "t", "r", "a", "n", "s", "l", "a", "t", "i", "o", "n", "u", "n", "i", "t" >>,
       Repetition(NonTerminal(
         << "e", "x", "t", "e", "r", "n", "a", "l", "d", "e", "c", "l", "a", "r",
            "a", "t", "i", "o", "n" >>)))

\* C19: for the BNF source <translation-unit> ::= {<external-declaration>}*
\* the front end ends with a GAST whose rule translationunit is defined as
\* Repetition(NonTerminal("externaldeclaration")).
C19_BnfFrontEnd ==
  (front.text = BnfSource /\ front.pc \in { "done", "loops", "ebnf" })
    => /\ front.outcome = "ast"
       /\ front.ast = << TranslationUnitRule >>

\* C20: _repeat_parse returns only true, and it returns after the attempt
\* that failed with the cursor (position, line, column and lookahead) that
\* it had when that attempt began.
C20_RepeatRestoresCursor ==
  [][Returning("Repetition") =>
       /\ Len(stack') < Len(stack) => ctl' = Ret(TRUE)
       /\ ~ctl.val =>
            /\ stack' = Pop
            /\ Cursor(lexer', current_token') = Top.entry]_vars

\* C21: the predicate emitted for Optional(x) returns only true, and when x
\* failed it returns with the cursor (position, line, column and lookahead)
\* that it had when the Optional started.
C21_OptionalRollsBack ==
  [][Returning("Optional") =>
       /\ ctl' = Ret(TRUE)
       /\ ~ctl.val => Cursor(lexer', current_token') = Top.entry]_vars

\* the two shapes of the definition of number that make the digit idiom
NumberShape(d) ==
  \/ d = NonTerminal("digit")
  \/ d = Sequence(<< NonTerminal("digit"), Repetition(NonTerminal("digit")) >>)

DigitIdiom(g) ==
  /\ "digit" \in RuleNames(g)
  /\ "number" \in RuleNames(g)
  /\ NumberShape(LastRule(g, "number").definition)

\* C22: the digit idiom is recognized exactly for a grammar with a rule
\* digit and a rule number of one of the two shapes; then no reference
\* NonTerminal("number") is left in a rule definition after preprocessing,
\* and for every other grammar preprocessing leaves the GAST as it was.
C22_DigitIdiom ==
  pc # "grammar" =>
    IF DigitIdiom(Gast(grammar))
    THEN \A n \in AllNodes(ast) : ~IsNumberRef(n)
    ELSE ast = Gast(grammar)

\* the generator has taken the grammar for one with the digit idiom
IdiomRecognized(g) ==
  /\ "number" \in RuleNames(g)
  /\ "digit" \in RuleNames(g)
  /\ _is_digit_sequence_pattern(LastRule(g, "number"), LastRule(g, "digit"))

\* C23: when the digit idiom has been recognized the recognizer has neither
\* a method parse_digit nor a method parse_number.
C23_IdiomRulesNotEmitted ==
  (pc # "grammar" /\ IdiomRecognized(Gast(grammar)))
    => EmittedNames(ast) \cap { "digit", "number" } = {}

SingleDigit(v) == Len(v) = 1 /\ IsDigitChar(v[1])

\* C24: keywords is the set of the alphabetic terminal values that are no
\* reserved names; symbols is the set of the terminal values that are not
\* empty, not alphabetic, not a single digit and no reserved names; the
\* empty terminal is in neither set and the sets are disjoint.
C24_TerminalClasses ==
  pc # "grammar" =>
    /\ CollectKeywords(ast) =
         { v \in TerminalValues(ast) : IsAlpha(v) /\ v \notin SpecialValues }
    /\ CollectSymbols(ast) =
         { v \in TerminalValues(ast) :
             /\ v # << >>
             /\ ~IsAlpha(v)
             /\ ~SingleDigit(v)
             /\ v \notin SpecialValues }
    /\ << >> \notin CollectKeywords(ast) \cup CollectSymbols(ast)
    /\ CollectKeywords(ast) \cap CollectSymbols(ast) = {}

IdentStart(c) == IsAlphaChar(c) \/ c = "_"

\* the longest run of [A-Za-z0-9_] at the head of the text
RECURSIVE IdentPrefix(_, _)
IdentPrefix(txt, i) ==
  IF i <= Len(txt) /\ (IsAlnumChar(txt[i]) \/ txt[i] = "_")
  THEN IdentPrefix(txt, i + 1)
  ELSE SubSeq(txt, 1, i - 1)

\* C25: on a text that begins with a letter or an underscore the lexer
\* returns the whole run of [A-Za-z0-9_] as one token, of kind KEYWORD when
\* the run is in the keyword set and of kind IDENTIFIER otherwise.
C25_IdentifierRun ==
  [][(pc = "new" /\ text # << >> /\ IdentStart(text[1])) =>
       /\ pc' = "ready"
       /\ current_token'.value = IdentPrefix(text, 1)
       /\ current_token'.type =
            IF IdentPrefix(text, 1) \in keywords THEN "KEYWORD" ELSE "IDENTIFIER"]_vars

\* the lexer as it is after p calls of advance from the start of the text
RECURSIVE LexerAt(_, _)
LexerAt(txt, p) ==
  IF p = 0 THEN NewLexer(txt) ELSE advance(txt, LexerAt(txt, p - 1))

\* the lookahead is a token of the text that ends at lexer.pos
LookaheadEndsAtPos ==
  \E p \in 0..lexer.pos :
    LET r == get_next_token(text, keywords, LexerAt(text, p))
    IN  r.err = "none" /\ r.tok = current_token /\ r.lx.pos = lexer.pos

\* C28: while the recognizer runs, lexer.current_char is the character of
\* the text at lexer.pos (None at the end of the text) and the lookahead is
\* the token that ends at lexer.pos.
C28_LexerCoherence ==
  pc \in { "ready", "parsing" } =>
    /\ lexer.current_char = CharAt(text, lexer.pos)
    /\ LookaheadEndsAtPos

\* a terminal the recognizer asks the lexer for as one SYMBOL of two or more
\* characters
MultiCharSymbol(v) == Len(v) > 1 /\ ~IsAlpha(v) /\ v \notin SpecialValues

\* the node cannot match without matching such a terminal
RECURSIVE Requires(_, _, _)
Requires(g, node, fuel) ==
  CASE node.type = "Terminal" -> MultiCharSymbol(node.value)
    [] node.type = "Sequence" ->
         \E i \in 1..Len(node.items) : Requires(g, node.items[i], fuel)
    [] node.type = "Alternative" ->
         \A i \in 1..Len(node.options) : Requires(g, node.options[i], fuel)
    [] node.type = "NonTerminal" ->
         /\ fuel > 0
         /\ node.name \in EmittedNames(g)
         /\ Requires(g, LastRule(g, node.name).definition, fuel - 1)
    [] OTHER -> FALSE

\* C30: a SYMBOL token has a lexeme of one character; the match of a
\* terminal that is a non-alphabetic literal of two or more characters
\* returns false and consumes nothing, and a rule that cannot match without
\* such a terminal returns false.
C30_MultiCharSymbolNeverMatches ==
  [][/\ current_token'.type = "SYMBOL" => Len(current_token'.value) = 1
     /\ (Evaluating("Terminal") /\ MultiCharSymbol(ctl.node.value)) =>
          /\ ctl' = Ret(FALSE)
          /\ lexer' = lexer
          /\ current_token' = current_token
     /\ (Returning("rule") /\ Requires(ast, Top.node, Len(ast))) => ~ctl.val]_vars

\* the match of "==" is asked for where the text has ==
C30_Witness ==
  /\ Evaluating("Terminal")
  /\ MultiCharSymbol(ctl.node.value)
  /\ current_token.type = "SYMBOL"
  /\ current_token.value = << ctl.node.value[1] >>
  /\ lexer.current_char = ctl.node.value[2]

\* the atoms of a term: as written, and the node the atom stands for
Atoms ==
  { [src |-> << "b" >>, node |-> NonTerminal(<< "b" >>)],
    [src |-> << "\"", "x", "\"" >>, node |-> Terminal(<< "x" >>)],
    [src |-> << "(", "b", ")" >>, node |-> NonTerminal(<< "b" >>)],
    [src |-> << "{", "b", "}" >>, node |-> Repetition(NonTerminal(<< "b" >>))],
    [src |-> << "[", "b", "]" >>, node |-> Optional(NonTerminal(<< "b" >>))] }

Desugar(op, atom) ==
  CASE op = "*" -> Repetition(atom)
    [] op = "?" -> Optional(atom)
    [] op = "+" -> Sequence(<< atom, Repetition(atom) >>)

\* C26: EBNFParser takes a postfix operator after any atom (terminal,
\* identifier, parenthesised, braced or bracketed group) as part of the
\* term: for the rule a = <atom><op>; it returns the rule a defined as
\* Repetition(atom) for *, Optional(atom) for ? and
\* Sequence(atom, Repetition(atom)) for +.
C26_PostfixOperators ==
  \A a \in Atoms, op \in { "*", "+", "?" } :
    (front.pc = "returned"
       /\ front.text = << "a", "=" >> \o a.src \o << op, ";" >>)
      => /\ front.outcome = "ast"
         /\ front.ast = << Rule(<< "a" >>, Desugar(op, a.node)) >>

\* no Sequence and no Alternative of the rules has fewer than two children
Unwrapped(rules) ==
  \A n \in AllNodes(rules) :
    /\ n.type = "Sequence" => Len(n.items) >= 2
    /\ n.type = "Alternative" => Len(n.options) >= 2

\* C27: a GAST returned by a meta-parser has no Sequence and no Alternative
\* with fewer than two children, and the rule a = <atom>; is returned with
\* the node of the atom itself as its definition.
C27_NoSingleChildWrapper ==
  front.outcome = "ast" =>
    /\ Unwrapped(front.ast)
    /\ \A a \in Atoms :
         front.text = << "a", "=" >> \o a.src \o << ";" >>
           => front.ast = << Rule(<< "a" >>, a.node) >>

\* a = (b),b : the group is returned as the term b, the sequence has two
C27_Witness ==
  /\ front.pc = "returned"
  /\ front.text = << "a", "=", "(", "b", ")", ",", "b" >>
  /\ front.ast =
       << Rule(<< "a" >>,
               Sequence(<< NonTerminal(<< "b" >>), NonTerminal(<< "b" >>) >>)) >>

\* C29: parse_grammar of a meta-parser returns or raises on every grammar
\* text: it never stays in its rule loop without consuming a token.
C29_ParseGrammarTerminates == front.pc # "loops"

====
